---- MODULE Spec2Model ----
(***************************************************************************)
(* A model of src/blockchain.py: a hash-linked chain of blocks sealed by a *)
(* brute-force proof-of-work, a pending-transaction buffer, and the chain  *)
(* validation scan.                                                        *)
(*                                                                         *)
(* Python positions are 0-based; a chain is a TLA+ sequence, so the block  *)
(* at Python position i is chain[i + 1] (operator At).                     *)
(*                                                                         *)
(* A hex digest (hashlib.sha256(...).hexdigest()) is modelled as the       *)
(* record [pre |-> the hashed content]: the digest of a content is always  *)
(* the same string, and two digests are the same string only when the      *)
(* hashed contents are equal (SHA-256 treated as collision free).  The     *)
(* characters of a digest are not computed.  The one thing the program     *)
(* reads of them is how many '0' characters a digest starts with           *)
(* (startswith in proof_of_work); that count is any value of ZeroRuns,     *)
(* chosen when the program first looks at the digest and recorded in       *)
(* leading_zeros, so that the same digest shows the same count ever after. *)
(* Every property checked therefore holds whatever digits SHA-256 gives.   *)
(* The string "0" that the genesis block carries as previous_hash is       *)
(* ZeroHash.                                                               *)
(***************************************************************************)
EXTENDS Integers, Sequences, FiniteSets, TLC

VARIABLES
    chain,                  \* Blockchain.chain: sequence of Block records
    pending_transactions,   \* Blockchain.pending_transactions
    difficulty,             \* Blockchain.difficulty
    now,                    \* the wall clock read by time.strftime
    last,                   \* the last method call: name, return value, printed report
    tampered,               \* the out-of-band mutation done so far
    pw,                     \* a proof_of_work call in progress (SpecPoW, SpecMine)
    leading_zeros,          \* hashed content -> number of '0' its digest starts with
    genesis_calls           \* number of create_genesis_block calls made so far

vars == <<chain, pending_transactions, difficulty, now, last, tampered, pw,
          leading_zeros, genesis_calls>>

----------------------------------------------------------------------------
(* Bounds of the model *)

\* no further record is accepted, and no further genesis block created, once the
\* blocks after the first and the pending buffer hold this many records together
MaxTx == 2
\* a proof_of_work search made within a call (Blockchain(), create_genesis_block,
\* mine_block, proof_of_work on a block of the chain) ends at a nonce up to this
MaxNonce == 1
\* a proof_of_work search taken one iteration per step (SpecPoW, SpecMine) is
\* followed up to this nonce
MaxSteps == 2
\* the clock is not advanced beyond this second
MaxTime == 1

(* Program constants *)

\* self.difficulty = 4
DIFFICULTY == 4
\* number of characters of a SHA-256 hexdigest
HexDigits == 64

----------------------------------------------------------------------------
(* Arguments offered to add_transaction *)

Senders == {"", "Alice"}
Receivers == {"", "Bob"}
Amounts == {-1, 0, 1, 2}

\* Numbers of leading '0' characters a digest is offered to have: one short of the
\* constructor's target, and the target
ZeroRuns == {DIFFICULTY - 1, DIFFICULTY}

----------------------------------------------------------------------------
(* Block *)

\* The string "0"
ZeroHash == [pre |-> <<>>]

\* json.dumps({...}, sort_keys=True): the five hashed fields in key order
block_string(b) ==
    <<b.index, b.nonce, b.previous_hash, b.timestamp, b.transactions>>

\* hashlib.sha256(s.encode()).hexdigest()
sha256_hexdigest(s) == [pre |-> s]

\* Block.calculate_hash
calculate_hash(b) == sha256_hexdigest(block_string(b))

\* Block.__init__: the hash field is computed last, from the other five
Block(index, transactions, timestamp, previous_hash, nonce) ==
    LET b == [index |-> index, transactions |-> transactions,
              timestamp |-> timestamp, previous_hash |-> previous_hash,
              nonce |-> nonce, hash |-> ZeroHash]
    IN  [b EXCEPT !.hash = calculate_hash(b)]

\* No digest looked at yet
EmptyTable == [s \in {} |-> 0]

\* The tables that extend t by a count for each content of Q that t does not hold
Sampled(t, Q) == { t @@ f : f \in [Q \ DOMAIN t -> ZeroRuns] }

\* Number of '0' characters the string h starts with, by table t ("0" is one '0')
zero_run(t, h) == IF h = ZeroHash THEN 1 ELSE t[h.pre]

\* Mutant of startswith_zeros: one zero fewer is asked for
startswith_zeros_short(t, h, d) == d - 1 <= zero_run(t, h)

\* computed_hash.startswith('0' * d)
startswith_zeros(t, h, d) == d <= zero_run(t, h)

----------------------------------------------------------------------------
(* Blockchain *)

\* the block at Python position i
At(ch, i) == ch[i + 1]

\* The while loop of proof_of_work: returns the block as the loop leaves it and
\* the digest the loop ends on.
RECURSIVE pow_loop(_, _, _)
pow_loop(t, b, d) ==
    LET computed_hash == calculate_hash(b)
    IN  IF startswith_zeros(t, computed_hash, d)
        THEN [block |-> b, ret |-> computed_hash]
        ELSE pow_loop(t, [b EXCEPT !.nonce = @ + 1], d)

\* Blockchain.proof_of_work: block.nonce = 0, then the search.  The result is the
\* mutated block and the returned digest.
proof_of_work(t, b, d) == pow_loop(t, [b EXCEPT !.nonce = 0], d)

\* The contents proof_of_work(b) hashes when its search ends at nonce n
Hashed(b, n) == { block_string([b EXCEPT !.nonce = k]) : k \in 0..n }

\* The tables a proof_of_work(b) call can leave behind when it starts with table t:
\* for some n the digests at the nonces below n miss the target and the digest at
\* n meets it
proof_of_work_runs(t, b, d) ==
    UNION { { u \in Sampled(t, Hashed(b, n)) :
                /\ startswith_zeros(u, calculate_hash([b EXCEPT !.nonce = n]), d)
                /\ \A k \in 0..(n - 1) :
                      ~ startswith_zeros(u, calculate_hash([b EXCEPT !.nonce = k]), d) }
            : n \in 0..MaxNonce }

\* Mutant of Seal: the returned digest is not stored, the block keeps the hash its
\* constructor computed
Seal_not_stored(t, b, d) == proof_of_work(t, b, d).block

\* block.hash = self.proof_of_work(block)
Seal(t, b, d) ==
    LET r == proof_of_work(t, b, d)
    IN  [r.block EXCEPT !.hash = r.ret]

\* The block create_genesis_block constructs
genesis_candidate(time) ==
    Block(0, <<[sender |-> "Genesis", receiver |-> "Network", amount |-> 0]>>,
          time, ZeroHash, 0)

\* Mutant of genesis_block: the genesis block is appended without proof-of-work
genesis_block_unsealed(t, time, d) == genesis_candidate(time)

\* The genesis block as create_genesis_block builds and seals it
genesis_block(t, time, d) == Seal(t, genesis_candidate(time), d)

\* Blockchain.get_latest_block
get_latest_block(ch) == ch[Len(ch)]

\* Mutant of candidate_block: links to the hash the predecessor had when it was
\* constructed (nonce 0) instead of its stored hash
candidate_block_provisional(ch, pend, t) ==
    Block(Len(ch), pend, t,
          calculate_hash([get_latest_block(ch) EXCEPT !.nonce = 0]), 0)

\* Mutant of candidate_block: the index is the position of the latest block
candidate_block_index_last(ch, pend, t) ==
    Block(Len(ch) - 1, pend, t, get_latest_block(ch).hash, 0)

\* The candidate block mine_block constructs
candidate_block(ch, pend, t) ==
    Block(Len(ch), pend, t, get_latest_block(ch).hash, 0)

\* Mutant of tx_accepted: amount >= 0
tx_accepted_nonneg(sender, receiver, amount) ==
    sender # "" /\ receiver # "" /\ amount >= 0

\* Mutant of tx_accepted: the receiver is not looked at
tx_accepted_no_receiver(sender, receiver, amount) ==
    sender # "" /\ amount > 0

\* The test of add_transaction: sender and receiver and amount > 0
tx_accepted(sender, receiver, amount) ==
    sender # "" /\ receiver # "" /\ amount > 0

\* Mutant of scan_from: the block's own digest is not recomputed, only the linkage
\* is compared
RECURSIVE scan_linkage_only(_, _)
scan_linkage_only(ch, i) ==
    IF i >= Len(ch)
    THEN [ret |-> "True", idx |-> -1, out |-> ""]
    ELSE IF At(ch, i).previous_hash # At(ch, i - 1).hash
         THEN [ret |-> "False", idx |-> i, out |-> "has an invalid previous hash!"]
         ELSE scan_linkage_only(ch, i + 1)

\* Mutant of scan_from: the linkage is compared before the digest is recomputed
RECURSIVE scan_linkage_first(_, _)
scan_linkage_first(ch, i) ==
    IF i >= Len(ch)
    THEN [ret |-> "True", idx |-> -1, out |-> ""]
    ELSE IF At(ch, i).previous_hash # At(ch, i - 1).hash
         THEN [ret |-> "False", idx |-> i, out |-> "has an invalid previous hash!"]
         ELSE IF At(ch, i).hash # calculate_hash(At(ch, i))
         THEN [ret |-> "False", idx |-> i, out |-> "has been tampered!"]
         ELSE scan_linkage_first(ch, i + 1)

\* Mutant of scan_from: a stored hash that misses the difficulty target, or that no
\* proof-of-work search has come to, counts as tampered
RECURSIVE scan_checks_target(_, _)
scan_checks_target(ch, i) ==
    IF i >= Len(ch)
    THEN [ret |-> "True", idx |-> -1, out |-> ""]
    ELSE IF \/ At(ch, i).hash # calculate_hash(At(ch, i))
            \/ At(ch, i).hash.pre \notin DOMAIN leading_zeros
            \/ ~ startswith_zeros(leading_zeros, At(ch, i).hash, DIFFICULTY)
         THEN [ret |-> "False", idx |-> i, out |-> "has been tampered!"]
         ELSE IF At(ch, i).previous_hash # At(ch, i - 1).hash
         THEN [ret |-> "False", idx |-> i, out |-> "has an invalid previous hash!"]
         ELSE scan_checks_target(ch, i + 1)

\* Blockchain.is_chain_valid as a function of the chain: the returned value, and the
\* position and kind of the report it prints (idx = -1, out = "" when it prints nothing)
RECURSIVE scan_from(_, _)
scan_from(ch, i) ==
    IF i >= Len(ch)
    THEN [ret |-> "True", idx |-> -1, out |-> ""]
    ELSE LET current == At(ch, i)
             previous == At(ch, i - 1)
         IN  IF current.hash # calculate_hash(current)
             THEN [ret |-> "False", idx |-> i, out |-> "has been tampered!"]
             ELSE IF current.previous_hash # previous.hash
             THEN [ret |-> "False", idx |-> i, out |-> "has an invalid previous hash!"]
             ELSE scan_from(ch, i + 1)

\* Mutant of is_chain_valid: the genesis block's digest is recomputed as well
is_chain_valid_checks_genesis(ch) ==
    IF At(ch, 0).hash # calculate_hash(At(ch, 0))
    THEN [ret |-> "False", idx |-> 0, out |-> "has been tampered!"]
    ELSE scan_from(ch, 1)

is_chain_valid(ch) == scan_from(ch, 1)

----------------------------------------------------------------------------
(* State machine *)

\* tampered when no field was overwritten yet.  Otherwise it holds the position and
\* the field that was overwritten, the length the chain had and the hash the block
\* stored at that moment.
NoTamper == [pos |-> -1, field |-> "none", len |-> 0, sealed |-> ZeroHash]

NoCall == [pc |-> "idle"]

\* Number of records in the blocks of ch after the first
RECURSIVE MinedTx(_)
MinedTx(ch) ==
    IF Len(ch) <= 1 THEN 0
    ELSE Len(ch[Len(ch)].transactions) + MinedTx(SubSeq(ch, 1, Len(ch) - 1))

\* Blockchain.__init__
Init ==
    /\ now = 0
    /\ difficulty = DIFFICULTY
    /\ \E t \in proof_of_work_runs(EmptyTable, genesis_candidate(now), difficulty) :
          /\ leading_zeros = t
          /\ chain = <<genesis_block(t, now, difficulty)>>
    /\ pending_transactions = <<>>
    /\ last = [op |-> "Blockchain", ret |-> "None", idx |-> -1, out |-> ""]
    /\ tampered = NoTamper
    /\ pw = NoCall
    /\ genesis_calls = 1

\* Blockchain.create_genesis_block() called again on the constructed chain
create_genesis_block ==
    /\ MinedTx(chain) + Len(pending_transactions) < MaxTx
    /\ \E t \in proof_of_work_runs(leading_zeros, genesis_candidate(now), difficulty) :
          /\ leading_zeros' = t
          /\ chain' = Append(chain, genesis_block(t, now, difficulty))
    /\ genesis_calls' = genesis_calls + 1
    /\ last' = [op |-> "create_genesis_block", ret |-> "None", idx |-> -1, out |-> ""]
    /\ UNCHANGED <<pending_transactions, difficulty, now, tampered, pw>>

\* Mutant of add_transaction: a rejected call prints nothing
add_transaction_silent(sender, receiver, amount) ==
    /\ IF tx_accepted(sender, receiver, amount)
       THEN /\ MinedTx(chain) + Len(pending_transactions) < MaxTx
            /\ pending_transactions' =
                   Append(pending_transactions,
                          [sender |-> sender, receiver |-> receiver, amount |-> amount])
       ELSE pending_transactions' = pending_transactions
    /\ last' = [op |-> "add_transaction", ret |-> "None", idx |-> -1, out |-> ""]
    /\ UNCHANGED <<chain, difficulty, now, tampered, pw, leading_zeros, genesis_calls>>

\* Mutant of add_transaction: the last mined block shares its list with the buffer
\* (no copy was taken), so an accepted record lands in that block as well
add_transaction_aliased(sender, receiver, amount) ==
    /\ IF tx_accepted(sender, receiver, amount)
       THEN /\ MinedTx(chain) + Len(pending_transactions) < MaxTx
            /\ pending_transactions' =
                   Append(pending_transactions,
                          [sender |-> sender, receiver |-> receiver, amount |-> amount])
            /\ chain' = IF Len(chain) > 1
                        THEN [chain EXCEPT ![Len(chain)].transactions =
                                 Append(@, [sender |-> sender, receiver |-> receiver,
                                            amount |-> amount])]
                        ELSE chain
            /\ last' = [op |-> "add_transaction", ret |-> "None", idx |-> -1, out |-> ""]
       ELSE /\ pending_transactions' = pending_transactions
            /\ chain' = chain
            /\ last' = [op |-> "add_transaction", ret |-> "None", idx |-> -1,
                        out |-> "Invalid transaction"]
    /\ UNCHANGED <<difficulty, now, tampered, pw, leading_zeros, genesis_calls>>

\* Blockchain.add_transaction(sender, receiver, amount)
add_transaction(sender, receiver, amount) ==
    /\ IF tx_accepted(sender, receiver, amount)
       THEN /\ MinedTx(chain) + Len(pending_transactions) < MaxTx
            /\ pending_transactions' =
                   Append(pending_transactions,
                          [sender |-> sender, receiver |-> receiver, amount |-> amount])
            /\ last' = [op |-> "add_transaction", ret |-> "None", idx |-> -1, out |-> ""]
       ELSE /\ pending_transactions' = pending_transactions
            /\ last' = [op |-> "add_transaction", ret |-> "None", idx |-> -1,
                        out |-> "Invalid transaction"]
    /\ UNCHANGED <<chain, difficulty, now, tampered, pw, leading_zeros, genesis_calls>>

\* Mutant of mine_block: the pending buffer is not cleared
mine_block_keeps_buffer ==
    /\ IF pending_transactions = <<>>
       THEN /\ last' = [op |-> "mine_block", ret |-> "False", idx |-> -1,
                        out |-> "No transactions to mine."]
            /\ UNCHANGED <<chain, leading_zeros>>
       ELSE \E t \in proof_of_work_runs(leading_zeros,
                         candidate_block(chain, pending_transactions, now), difficulty) :
              LET block == Seal(t, candidate_block(chain, pending_transactions, now),
                                difficulty)
              IN  /\ leading_zeros' = t
                  /\ chain' = Append(chain, block)
                  /\ last' = [op |-> "mine_block", ret |-> "True", idx |-> block.index,
                              out |-> "successfully mined!"]
    /\ UNCHANGED <<pending_transactions, difficulty, now, tampered, pw, genesis_calls>>

\* Mutant of mine_block: no test for an empty buffer
mine_block_unguarded ==
    /\ \E t \in proof_of_work_runs(leading_zeros,
                    candidate_block(chain, pending_transactions, now), difficulty) :
         LET block == Seal(t, candidate_block(chain, pending_transactions, now),
                           difficulty)
         IN  /\ leading_zeros' = t
             /\ chain' = Append(chain, block)
             /\ pending_transactions' = <<>>
             /\ last' = [op |-> "mine_block", ret |-> "True", idx |-> block.index,
                         out |-> "successfully mined!"]
    /\ UNCHANGED <<difficulty, now, tampered, pw, genesis_calls>>

\* Mutant of mine_block: the report names len(self.chain) as read after the append
mine_block_reports_len ==
    /\ IF pending_transactions = <<>>
       THEN /\ last' = [op |-> "mine_block", ret |-> "False", idx |-> -1,
                        out |-> "No transactions to mine."]
            /\ UNCHANGED <<chain, pending_transactions, leading_zeros>>
       ELSE \E t \in proof_of_work_runs(leading_zeros,
                         candidate_block(chain, pending_transactions, now), difficulty) :
              LET block == Seal(t, candidate_block(chain, pending_transactions, now),
                                difficulty)
              IN  /\ leading_zeros' = t
                  /\ chain' = Append(chain, block)
                  /\ pending_transactions' = <<>>
                  /\ last' = [op |-> "mine_block", ret |-> "True", idx |-> Len(chain) + 1,
                              out |-> "successfully mined!"]
    /\ UNCHANGED <<difficulty, now, tampered, pw, genesis_calls>>

\* Blockchain.mine_block().  The call returns when its proof_of_work search does.
mine_block ==
    /\ IF pending_transactions = <<>>
       THEN /\ last' = [op |-> "mine_block", ret |-> "False", idx |-> -1,
                        out |-> "No transactions to mine."]
            /\ UNCHANGED <<chain, pending_transactions, leading_zeros>>
       ELSE \E t \in proof_of_work_runs(leading_zeros,
                         candidate_block(chain, pending_transactions, now), difficulty) :
              LET block == Seal(t, candidate_block(chain, pending_transactions, now),
                                difficulty)
              IN  /\ leading_zeros' = t
                  /\ chain' = Append(chain, block)
                  /\ pending_transactions' = <<>>
                  /\ last' = [op |-> "mine_block", ret |-> "True", idx |-> block.index,
                              out |-> "successfully mined!"]
    /\ UNCHANGED <<difficulty, now, tampered, pw, genesis_calls>>

\* Mutant of validate: a block found tampered has its hash overwritten with the
\* digest just recomputed
validate_repairing ==
    /\ last' = [op |-> "is_chain_valid"] @@ is_chain_valid(chain)
    /\ chain' = IF is_chain_valid(chain).out = "has been tampered!"
                THEN [chain EXCEPT ![is_chain_valid(chain).idx + 1].hash =
                         calculate_hash(At(chain, is_chain_valid(chain).idx))]
                ELSE chain
    /\ UNCHANGED <<pending_transactions, difficulty, now, tampered, pw,
                   leading_zeros, genesis_calls>>

\* Blockchain.is_chain_valid()
validate ==
    /\ last' = [op |-> "is_chain_valid"] @@ is_chain_valid(chain)
    /\ UNCHANGED <<chain, pending_transactions, difficulty, now, tampered, pw,
                   leading_zeros, genesis_calls>>

\* The clock that time.strftime reads moves on by a second
Tick ==
    /\ now < MaxTime
    /\ now' = now + 1
    /\ UNCHANGED <<chain, pending_transactions, difficulty, last, tampered, pw,
                   leading_zeros, genesis_calls>>

Next ==
    \/ \E s \in Senders, r \in Receivers, a \in Amounts : add_transaction(s, r, a)
    \/ mine_block
    \/ validate
    \/ create_genesis_block
    \/ Tick

Spec == Init /\ [][Next]_vars

----------------------------------------------------------------------------
(* Out-of-band mutation of one field of one block, as main() does with        *)
(* blockchain.chain[1].transactions[0]["amount"] = 100.  One field of one     *)
(* block is overwritten with a different value, once; the calls of Next go on *)
(* before and after it.                                                       *)

Fields == {"index", "transactions", "timestamp", "previous_hash", "nonce", "hash"}

\* transactions with the amount of its first record replaced by 100
amount_100(txs) == [txs EXCEPT ![1] = [@ EXCEPT !.amount = 100]]

\* The digests a tamperer has at hand: "0", every stored hash, every recomputed hash
KnownDigests(ch) ==
    {ZeroHash} \cup {ch[k].hash : k \in 1..Len(ch)}
               \cup {calculate_hash(ch[k]) : k \in 1..Len(ch)}

\* The values offered for field f of block b
TamperValues(ch, b, f) ==
    CASE f = "index" -> {0, b.index + 1}
      [] f = "transactions" ->
            {amount_100(b.transactions),
             SubSeq(b.transactions, 1, Len(b.transactions) - 1)}
      [] f = "timestamp" -> {b.timestamp + 1}
      [] f = "previous_hash" -> KnownDigests(ch)
      [] f = "nonce" -> {0, b.nonce + 1}
      [] f = "hash" -> KnownDigests(ch)

\* blockchain.chain[i].<f> = v
set_field(ch, i, f, v) == [ch EXCEPT ![i + 1] = [@ EXCEPT ![f] = v]]

Tamper ==
    /\ tampered = NoTamper
    /\ \E i \in 0..(Len(chain) - 1), f \in Fields :
         \E v \in TamperValues(chain, At(chain, i), f) :
            /\ v # At(chain, i)[f]
            /\ chain' = set_field(chain, i, f, v)
            /\ tampered' = [pos |-> i, field |-> f, len |-> Len(chain),
                            sealed |-> At(chain, i).hash]
    /\ UNCHANGED <<pending_transactions, difficulty, now, last, pw,
                   leading_zeros, genesis_calls>>

NextTamper ==
    \/ Next
    \/ Tamper

SpecTamper == Init /\ [][NextTamper]_vars

----------------------------------------------------------------------------
(* The tamperer covers the change: after the one field was overwritten, the      *)
(* block's hash is overwritten with the digest of the block as it now is,        *)
(* blockchain.chain[i].hash = blockchain.chain[i].calculate_hash(), or the       *)
(* block is handed to proof_of_work, which leaves a new nonce in it.             *)

Rehash ==
    /\ tampered # NoTamper
    /\ At(chain, tampered.pos).hash # calculate_hash(At(chain, tampered.pos))
    /\ chain' = set_field(chain, tampered.pos, "hash",
                          calculate_hash(At(chain, tampered.pos)))
    /\ UNCHANGED <<pending_transactions, difficulty, now, last, tampered, pw,
                   leading_zeros, genesis_calls>>

\* blockchain.proof_of_work(blockchain.chain[i]) for the block that was tampered
\* with: the search leaves its nonce in the block, the returned digest is not stored
\* (Rehash stores it).  On a block that was not written to the search ends at the
\* nonce the block has, and the call changes nothing.
proof_of_work_call ==
    /\ tampered # NoTamper
    /\ \E t \in proof_of_work_runs(leading_zeros, At(chain, tampered.pos), difficulty) :
          /\ leading_zeros' = t
          /\ chain' = [chain EXCEPT ![tampered.pos + 1] =
                          proof_of_work(t, At(chain, tampered.pos), difficulty).block]
    /\ UNCHANGED <<pending_transactions, difficulty, now, last, tampered, pw,
                   genesis_calls>>

NextForge ==
    \/ NextTamper
    \/ Rehash
    \/ proof_of_work_call

SpecForge == Init /\ [][NextForge]_vars

----------------------------------------------------------------------------
(* proof_of_work on its own, one loop iteration per step.  pw holds the call: *)
(* arg the block as passed in, block the block as mutated so far,             *)
(* computed_hash the local variable, ret the returned digest.  The number of  *)
(* leading zeros of a digest is fixed in the step that computes it.           *)

PowTxs ==
    { <<[sender |-> "Genesis", receiver |-> "Network", amount |-> 0]>>,
      <<[sender |-> "Alice", receiver |-> "Bob", amount |-> 1]>>,
      <<[sender |-> "Alice", receiver |-> "Bob", amount |-> 2],
        [sender |-> "Alice", receiver |-> "Bob", amount |-> 1]>> }

\* Nonces a block handed to proof_of_work may have been constructed with
PowNonces == {0, 1, 9}

\* Blocks handed to proof_of_work on a chain whose genesis block stores hash h
PowBlocks(h) ==
    { Block(i, txs, t, ph, n) :
        i \in 0..1, txs \in PowTxs, t \in 0..MaxTime, ph \in {ZeroHash, h},
        n \in PowNonces }

InitPoW ==
    /\ now = 0
    /\ difficulty = DIFFICULTY
    /\ \E t \in proof_of_work_runs(EmptyTable, genesis_candidate(now), difficulty) :
          /\ leading_zeros = t
          /\ chain = <<genesis_block(t, now, difficulty)>>
    /\ pending_transactions = <<>>
    /\ last = [op |-> "Blockchain", ret |-> "None", idx |-> -1, out |-> ""]
    /\ tampered = NoTamper
    /\ genesis_calls = 1
    /\ \E b \in PowBlocks(chain[1].hash) :
          pw = [pc |-> "call", arg |-> b, block |-> b,
                computed_hash |-> ZeroHash, ret |-> ZeroHash]

\* Mutant of PowEnter: the search starts at the nonce the block came with
PowEnter_no_reset ==
    /\ pw.pc = "call"
    /\ leading_zeros' \in Sampled(leading_zeros, {block_string(pw.block)})
    /\ pw' = [pw EXCEPT !.pc = "while", !.computed_hash = calculate_hash(pw.block)]
    /\ UNCHANGED <<chain, pending_transactions, difficulty, now, last, tampered,
                   genesis_calls>>

\* block.nonce = 0; computed_hash = block.calculate_hash()
PowEnter ==
    /\ pw.pc = "call"
    /\ LET b == [pw.block EXCEPT !.nonce = 0]
       IN  /\ leading_zeros' \in Sampled(leading_zeros, {block_string(b)})
           /\ pw' = [pw EXCEPT !.pc = "while", !.block = b,
                                !.computed_hash = calculate_hash(b)]
    /\ UNCHANGED <<chain, pending_transactions, difficulty, now, last, tampered,
                   genesis_calls>>

\* Mutant of PowIterate: the digest is recomputed before the nonce is incremented
PowIterate_stale ==
    /\ pw.pc = "while"
    /\ ~ startswith_zeros(leading_zeros, pw.computed_hash, difficulty)
    /\ leading_zeros' \in Sampled(leading_zeros, {block_string(pw.block)})
    /\ pw' = [pw EXCEPT !.block = [pw.block EXCEPT !.nonce = @ + 1],
                        !.computed_hash = calculate_hash(pw.block)]
    /\ UNCHANGED <<chain, pending_transactions, difficulty, now, last, tampered,
                   genesis_calls>>

\* one pass through the body of the while loop
PowIterate ==
    /\ pw.pc = "while"
    /\ ~ startswith_zeros(leading_zeros, pw.computed_hash, difficulty)
    /\ LET b == [pw.block EXCEPT !.nonce = @ + 1]
       IN  /\ leading_zeros' \in Sampled(leading_zeros, {block_string(b)})
           /\ pw' = [pw EXCEPT !.block = b, !.computed_hash = calculate_hash(b)]
    /\ UNCHANGED <<chain, pending_transactions, difficulty, now, last, tampered,
                   genesis_calls>>

\* Mutant of PowReturn: the search gives up after the first iteration and returns the
\* digest it has
PowReturn_capped ==
    /\ pw.pc = "while"
    /\ \/ startswith_zeros(leading_zeros, pw.computed_hash, difficulty)
       \/ pw.block.nonce >= 1
    /\ pw' = [pw EXCEPT !.pc = "returned", !.ret = pw.computed_hash]
    /\ UNCHANGED <<chain, pending_transactions, difficulty, now, last, tampered,
                   leading_zeros, genesis_calls>>

\* the loop condition fails: return computed_hash
PowReturn ==
    /\ pw.pc = "while"
    /\ startswith_zeros(leading_zeros, pw.computed_hash, difficulty)
    /\ pw' = [pw EXCEPT !.pc = "returned", !.ret = pw.computed_hash]
    /\ UNCHANGED <<chain, pending_transactions, difficulty, now, last, tampered,
                   leading_zeros, genesis_calls>>

\* the search is followed up to nonce MaxSteps
NextPoW ==
    \/ PowEnter
    \/ /\ pw.pc = "while"
       /\ pw.block.nonce < MaxSteps
       /\ PowIterate
    \/ PowReturn

SpecPoW == InitPoW /\ [][NextPoW]_vars

----------------------------------------------------------------------------
(* mine_block on a non-empty buffer, one loop iteration of its proof_of_work   *)
(* per step.  The leading zeros of the digests the search will compute, at the *)
(* nonces up to MaxSteps, are fixed from the start, so that whether some nonce *)
(* meets the target is a fact of the initial state.  The difficulty is the     *)
(* constructor's, or one more than the number of characters of a digest        *)
(* (blockchain.difficulty = 65), a target no digest meets.  The program is     *)
(* single-threaded and runs on without being suspended, which is the weak      *)
(* fairness of SpecMine.                                                       *)

MineBuffers ==
    LET T == { [sender |-> "Alice", receiver |-> "Bob", amount |-> a] : a \in {1, 2} }
    IN  { <<t>> : t \in T } \cup { <<t, u>> : t \in T, u \in T }

InitMine ==
    /\ now \in 0..MaxTime
    /\ difficulty \in {DIFFICULTY, HexDigits + 1}
    /\ pending_transactions \in MineBuffers
    /\ \E t \in proof_of_work_runs(EmptyTable, genesis_candidate(0), DIFFICULTY) :
          /\ chain = <<genesis_block(t, 0, DIFFICULTY)>>
          /\ leading_zeros \in
                Sampled(t, Hashed(candidate_block(chain, pending_transactions, now),
                                  MaxSteps))
    /\ last = [op |-> "Blockchain", ret |-> "None", idx |-> -1, out |-> ""]
    /\ tampered = NoTamper
    /\ genesis_calls = 1
    /\ pw = [pc |-> "mine"]

\* mine_block up to the call of proof_of_work: the buffer is not empty, the candidate
\* block is constructed
MineEnter ==
    /\ pw.pc = "mine"
    /\ pending_transactions # <<>>
    /\ LET b == candidate_block(chain, pending_transactions, now)
       IN  pw' = [pc |-> "call", arg |-> b, block |-> b,
                  computed_hash |-> ZeroHash, ret |-> ZeroHash]
    /\ UNCHANGED <<chain, pending_transactions, difficulty, now, last, tampered,
                   leading_zeros, genesis_calls>>

\* mine_block after proof_of_work returned: store the digest, append, clear, report
MineFinish ==
    /\ pw.pc = "returned"
    /\ chain' = Append(chain, [pw.block EXCEPT !.hash = pw.ret])
    /\ pending_transactions' = <<>>
    /\ last' = [op |-> "mine_block", ret |-> "True", idx |-> pw.block.index,
                out |-> "successfully mined!"]
    /\ pw' = [pw EXCEPT !.pc = "done"]
    /\ UNCHANGED <<difficulty, now, tampered, leading_zeros, genesis_calls>>

NextMine ==
    \/ MineEnter
    \/ PowEnter
    \/ /\ pw.pc = "while"
       /\ pw.block.nonce < MaxSteps
       /\ PowIterate
    \/ PowReturn
    \/ MineFinish

SpecMine == InitMine /\ [][NextMine]_vars /\ WF_vars(NextMine)

----------------------------------------------------------------------------
(* Properties *)

\* The records held by the block at Python position i of the chain
TxOf(i) == { At(chain, i).transactions[k] : k \in 1..Len(At(chain, i).transactions) }

PendingTx == { pending_transactions[k] : k \in 1..Len(pending_transactions) }

WellFormedTx(t) == t.amount > 0 /\ t.sender # "" /\ t.receiver # ""

\* The chain was built by Blockchain() and add_transaction / mine_block /
\* is_chain_valid calls: create_genesis_block was called by the constructor only
BuiltByApi == genesis_calls = 1

\* C1 (Spec).  Validation soundness: in every state reached from Blockchain() by
\* add_transaction (valid or invalid arguments) and mine_block calls alone,
\* is_chain_valid() returns True and reports no block; every is_chain_valid call
\* made returned True.
C1_ValidationSoundness ==
    BuiltByApi =>
        /\ is_chain_valid(chain) = [ret |-> "True", idx |-> -1, out |-> ""]
        /\ last.op = "is_chain_valid" => last.ret = "True"

\* a three-block chain, mined after rejected and accepted submissions, was validated
C1_Witness ==
    /\ BuiltByApi
    /\ Len(chain) >= 3
    /\ At(chain, 1).nonce > 0
    /\ last.op = "is_chain_valid"
    /\ last.ret = "True"

\* C2 (SpecTamper).  Tamper detection: once one field (any of the six) of the block at
\* position i >= 1 of a chain built by add_transaction / mine_block has been
\* overwritten with a different value, is_chain_valid() returns False and the block
\* it reports is block i, also after further add_transaction / mine_block calls.
\* Distinct contents have distinct digests in this model.
C2_TamperDetection ==
    (tampered.pos >= 1 /\ BuiltByApi) =>
        /\ is_chain_valid(chain).ret = "False"
        /\ is_chain_valid(chain).idx = tampered.pos

\* block 1 of a three-block chain had its transactions changed and the validation
\* that followed reported block 1
C2_Witness ==
    /\ BuiltByApi
    /\ Len(chain) >= 3
    /\ tampered.pos = 1
    /\ tampered.field = "transactions"
    /\ Len(At(chain, 1).transactions) >= 1
    /\ At(chain, 1).transactions[1].amount = 100
    /\ last.op = "is_chain_valid"
    /\ last.ret = "False"
    /\ last.idx = 1

\* C3 (Spec).  Linkage invariant: chain[0].previous_hash is "0" and, on a chain built
\* by add_transaction / mine_block calls, every later block's previous_hash is the
\* hash stored in its predecessor.
C3_Linkage ==
    /\ At(chain, 0).previous_hash = ZeroHash
    /\ BuiltByApi =>
          \A i \in 1..(Len(chain) - 1) :
              At(chain, i).previous_hash = At(chain, i - 1).hash

\* block 2 follows a block 1 whose sealed hash differs from the hash it was
\* constructed with
C3_Witness ==
    /\ BuiltByApi
    /\ Len(chain) >= 3
    /\ At(chain, 1).nonce > 0
    /\ At(chain, 1).hash # calculate_hash([At(chain, 1) EXCEPT !.nonce = 0])
    /\ At(chain, 2).previous_hash = At(chain, 1).hash

\* C4 (Spec).  Successful mining: a mine_block call on a non-empty buffer B leaves the
\* chain one block longer, the new last block holding exactly B in order, the earlier
\* blocks as they were and the buffer empty; and in no step of an add_transaction,
\* mine_block or is_chain_valid call does the chain change without the buffer going
\* from non-empty to empty, or the reverse.
C4_SuccessfulMining ==
    /\ [][ (mine_block /\ pending_transactions # <<>>) =>
             /\ Len(chain') = Len(chain) + 1
             /\ chain'[Len(chain')].transactions = pending_transactions
             /\ SubSeq(chain', 1, Len(chain)) = chain
             /\ pending_transactions' = <<>> ]_vars
    /\ [][ (genesis_calls' = genesis_calls) =>
             ((chain' # chain) <=>
                 (pending_transactions # <<>> /\ pending_transactions' = <<>>)) ]_vars

\* a block holding two records was just mined and the buffer is empty
C4_Witness ==
    /\ last.op = "mine_block"
    /\ last.ret = "True"
    /\ Len(chain) >= 2
    /\ Len(chain[Len(chain)].transactions) >= 2
    /\ chain[Len(chain)].transactions[1] # chain[Len(chain)].transactions[2]
    /\ pending_transactions = <<>>

\* C5 (Spec).  Nothing to mine: a mine_block call on an empty buffer returns False and
\* leaves the chain, the buffer and the difficulty as they were.
C5_NothingToMine ==
    [][ (mine_block /\ pending_transactions = <<>>) =>
          /\ last'.op = "mine_block"
          /\ last'.ret = "False"
          /\ chain' = chain
          /\ pending_transactions' = pending_transactions
          /\ difficulty' = difficulty ]_vars

\* mine_block was called on an empty buffer after a block had been mined
C5_Witness ==
    /\ last.op = "mine_block"
    /\ last.ret = "False"
    /\ Len(chain) >= 2
    /\ pending_transactions = <<>>

\* C6 (Spec).  Submission effect: add_transaction with an empty sender, an empty
\* receiver or amount <= 0 leaves buffer and chain as they were; otherwise it appends
\* the one record {sender, receiver, amount} to the end of the buffer and leaves the
\* chain as it was.
C6_SubmissionEffect ==
    [][ \A s \in Senders, r \in Receivers, a \in Amounts :
          add_transaction(s, r, a) =>
            /\ chain' = chain
            /\ IF s = "" \/ r = "" \/ a <= 0
               THEN pending_transactions' = pending_transactions
               ELSE /\ Len(pending_transactions') = Len(pending_transactions) + 1
                    /\ SubSeq(pending_transactions', 1, Len(pending_transactions))
                          = pending_transactions
                    /\ pending_transactions'[Len(pending_transactions')]
                          = [sender |-> s, receiver |-> r, amount |-> a] ]_vars

\* a submission was rejected while the buffer held a record
C6_Witness ==
    /\ last.op = "add_transaction"
    /\ last.out = "Invalid transaction"
    /\ Len(pending_transactions) >= 1

\* C7 (SpecPoW).  PoW validity: the digest proof_of_work returns starts with
\* `difficulty` zero digits, and calculate_hash() of the block, with the nonce the
\* search left in it, is that digest.  (The call as create_genesis_block and
\* mine_block make it in one step, proof_of_work, ends with the same block and digest.)
C7_PoWValidity ==
    pw.pc = "returned" =>
        /\ pw.ret.pre \in DOMAIN leading_zeros
        /\ leading_zeros[pw.ret.pre] >= difficulty
        /\ calculate_hash(pw.block) = pw.ret
        /\ proof_of_work(leading_zeros, pw.arg, difficulty)
              = [block |-> pw.block, ret |-> pw.ret]

\* a search that had to move the nonce has returned
C7_Witness ==
    /\ pw.pc = "returned"
    /\ pw.block.nonce > 1
    /\ pw.arg.nonce # 0

\* C8 (Spec).  Genesis invariant: right after Blockchain() the chain is one block,
\* with index 0 and previous_hash "0", the buffer is empty, and the block's stored
\* hash is its proof-of-work digest: it meets the difficulty target and is the digest
\* of the block.
C8_GenesisInvariant ==
    last.op = "Blockchain" =>
        /\ Len(chain) = 1
        /\ At(chain, 0).index = 0
        /\ At(chain, 0).previous_hash = ZeroHash
        /\ pending_transactions = <<>>
        /\ At(chain, 0).hash.pre \in DOMAIN leading_zeros
        /\ leading_zeros[At(chain, 0).hash.pre] >= difficulty
        /\ At(chain, 0).hash = calculate_hash(At(chain, 0))

\* the fresh chain, whose genesis block needed a search
C8_Witness ==
    /\ last.op = "Blockchain"
    /\ Len(chain) = 1
    /\ At(chain, 0).nonce > 0

\* C9 as stated (Spec): every record in the buffer and in every block, the genesis
\* block included, has amount > 0 and a non-empty sender and receiver.
C9_Original ==
    /\ \A t \in PendingTx : WellFormedTx(t)
    /\ \A i \in 0..(Len(chain) - 1) : \A t \in TxOf(i) : WellFormedTx(t)

\* C9 amended (Spec).  Transaction invariant: every record in the buffer and in every
\* block mine_block appended has amount > 0 and a non-empty sender and receiver; a
\* block create_genesis_block appended, the genesis block above all, holds one
\* record, with a non-empty sender and receiver and amount 0.
C9_TransactionInvariant ==
    /\ \A t \in PendingTx : WellFormedTx(t)
    /\ \A i \in 0..(Len(chain) - 1) :
          IF i = 0 \/ (~ BuiltByApi /\ At(chain, i).index = 0)
          THEN /\ Len(At(chain, i).transactions) = 1
               /\ \A t \in TxOf(i) : t.amount = 0 /\ t.sender # "" /\ t.receiver # ""
          ELSE \A t \in TxOf(i) : WellFormedTx(t)

\* rejected submissions were made, a block was mined and the buffer holds a record
C9_Witness ==
    /\ BuiltByApi
    /\ Len(chain) >= 2
    /\ pending_transactions # <<>>
    /\ last.op = "add_transaction"
    /\ last.out = "Invalid transaction"

\* C10 as stated (Spec): the value add_transaction returns tells the outcome, a
\* success value when the record was appended and a failure value when the arguments
\* were rejected.
C10_Original ==
    last.op = "add_transaction" =>
        last.ret = (IF last.out = "Invalid transaction" THEN "False" ELSE "True")

\* C10 amended (Spec).  Submission result: add_transaction returns None in both
\* outcomes; what tells them apart is the report: "Invalid transaction" is printed
\* exactly when the arguments were rejected (and the buffer is then unchanged), and
\* nothing is printed exactly when the record was appended.
C10_SubmissionResult ==
    [][ \A s \in Senders, r \in Receivers, a \in Amounts :
          add_transaction(s, r, a) =>
            /\ last'.op = "add_transaction"
            /\ last'.ret = "None"
            /\ (last'.out = "Invalid transaction") <=> (s = "" \/ r = "" \/ a <= 0)
            /\ (last'.out = "Invalid transaction") <=>
                   (pending_transactions' = pending_transactions)
            /\ (last'.out = "") <=>
                   (pending_transactions' = Append(pending_transactions,
                        [sender |-> s, receiver |-> r, amount |-> a])) ]_vars

\* one submission was accepted and the next one rejected
C10_Witness ==
    /\ last = [op |-> "add_transaction", ret |-> "None", idx |-> -1,
               out |-> "Invalid transaction"]
    /\ Len(pending_transactions) = 1
    /\ Len(chain) = 1

\* C11 (Spec).  Mining result: a mine_block call on a non-empty buffer returns True
\* and reports ("Block <index> successfully mined!") the index of the new block; that
\* index is the chain length before the call, the position the block was appended at.
C11_MiningResult ==
    [][ (mine_block /\ pending_transactions # <<>>) =>
          /\ last'.op = "mine_block"
          /\ last'.ret = "True"
          /\ last'.out = "successfully mined!"
          /\ last'.idx = Len(chain)
          /\ Len(chain') = Len(chain) + 1
          /\ At(chain', last'.idx).index = last'.idx
          /\ At(chain', last'.idx).transactions = pending_transactions ]_vars

\* the second block was just mined and reported as block 2
C11_Witness ==
    /\ last = [op |-> "mine_block", ret |-> "True", idx |-> 2,
               out |-> "successfully mined!"]
    /\ Len(chain) = 3

\* C12 (SpecTamper).  Validation is read-only: an is_chain_valid call, whether it
\* returns True or False, leaves every block of the chain, the pending buffer and the
\* difficulty as they were, and a second call made right after it returns and reports
\* the same.
C12_ValidationReadOnly ==
    [][ validate =>
          /\ chain' = chain
          /\ pending_transactions' = pending_transactions
          /\ difficulty' = difficulty
          /\ last'.op = "is_chain_valid"
          /\ last'.ret = is_chain_valid(chain).ret
          /\ last' = [op |-> "is_chain_valid"] @@ is_chain_valid(chain') ]_vars

\* a validation of a tampered three-block chain returned False with records pending
C12_Witness ==
    /\ Len(chain) >= 3
    /\ tampered.pos >= 1
    /\ last.op = "is_chain_valid"
    /\ last.ret = "False"
    /\ last.out = "has been tampered!"
    /\ At(chain, last.idx).hash # calculate_hash(At(chain, last.idx))

\* C13 (Spec).  Append-only chain: in every step of add_transaction, mine_block and
\* is_chain_valid calls the chain is as long as before or longer and every block that
\* was in it is unchanged in all six fields; an add_transaction call, also one made
\* after a block was mined from the buffer, leaves the whole chain as it was.
C13_AppendOnly ==
    /\ [][ /\ Len(chain') >= Len(chain)
           /\ SubSeq(chain', 1, Len(chain)) = chain ]_vars
    /\ [][ \A s \in Senders, r \in Receivers, a \in Amounts :
             add_transaction(s, r, a) => chain' = chain ]_vars

\* a record was accepted into the buffer after a block holding records had been mined
C13_Witness ==
    /\ Len(chain) >= 2
    /\ last.op = "add_transaction"
    /\ last.out = ""
    /\ pending_transactions # <<>>
    /\ At(chain, 1).transactions # pending_transactions

\* C14 (Spec).  Sealed-hash invariant: every block of the chain, the genesis block
\* included, stores as hash the digest of its index, transactions, timestamp,
\* previous_hash and nonce, and that hash starts with `difficulty` zero digits; the
\* difficulty is the value set at construction.
C14_SealedHash ==
    /\ difficulty = DIFFICULTY
    /\ \A i \in 0..(Len(chain) - 1) :
          /\ At(chain, i).hash = sha256_hexdigest(
                 <<At(chain, i).index, At(chain, i).nonce, At(chain, i).previous_hash,
                   At(chain, i).timestamp, At(chain, i).transactions>>)
          /\ At(chain, i).hash.pre \in DOMAIN leading_zeros
          /\ leading_zeros[At(chain, i).hash.pre] >= difficulty

\* three sealed blocks, each found at another nonce than the block before it
C14_Witness ==
    /\ Len(chain) >= 3
    /\ At(chain, 0).nonce # At(chain, 1).nonce
    /\ At(chain, 1).nonce # At(chain, 2).nonce
    /\ At(chain, 2).nonce > 0
    /\ now > 0

\* C15 (Spec).  Index equals position: on a chain built by add_transaction /
\* mine_block calls the block at position i has index i, for every i; mine_block
\* calls that failed and submissions that were rejected in between leave no gap and
\* no repeat.
C15_IndexIsPosition ==
    BuiltByApi => \A i \in 0..(Len(chain) - 1) : At(chain, i).index = i

\* a third block exists, and the last call was a mine_block that failed
C15_Witness ==
    /\ BuiltByApi
    /\ Len(chain) >= 3
    /\ At(chain, 2).index = 2
    /\ last.op = "mine_block"
    /\ last.ret = "False"

\* The two comparisons of is_chain_valid, for the block at position i >= 1
HashOk(i) == At(chain, i).hash = calculate_hash(At(chain, i))

LinkOk(i) == At(chain, i).previous_hash = At(chain, i - 1).hash

\* Positions at which a comparison fails
BadPositions == { i \in 1..(Len(chain) - 1) : ~ HashOk(i) \/ ~ LinkOk(i) }

FirstBad == CHOOSE i \in BadPositions : \A j \in BadPositions : i <= j

\* C16 (SpecForge).  First-failure scan: on a chain tampered with (one field
\* overwritten, the block's hash recomputed or the block searched again after it,
\* blocks appended by mine_block and create_genesis_block) is_chain_valid()
\* returns True iff every block i >= 1 has hash = calculate_hash() and
\* previous_hash = chain[i-1].hash; otherwise it returns False and reports the
\* smallest i at which a comparison fails, as "tampered" when the digest comparison
\* fails there (also when both fail) and as an invalid previous hash otherwise; the
\* blocks after i play no part in the result.
C16_FirstFailureScan ==
    IF BadPositions = {}
    THEN is_chain_valid(chain) = [ret |-> "True", idx |-> -1, out |-> ""]
    ELSE /\ is_chain_valid(chain) =
               [ret |-> "False", idx |-> FirstBad,
                out |-> IF ~ HashOk(FirstBad) THEN "has been tampered!"
                        ELSE "has an invalid previous hash!"]
         /\ is_chain_valid(SubSeq(chain, 1, FirstBad + 1)) = is_chain_valid(chain)

\* both comparisons fail at block 1 of a three-block chain and a validation
\* reported block 1 as tampered
C16_Witness ==
    /\ Len(chain) >= 3
    /\ BadPositions # {}
    /\ ~ HashOk(FirstBad)
    /\ ~ LinkOk(FirstBad)
    /\ FirstBad = 1
    /\ last = [op |-> "is_chain_valid", ret |-> "False", idx |-> 1,
               out |-> "has been tampered!"]

\* C17 (SpecTamper).  Genesis asymmetry: after the genesis block's index,
\* transactions, timestamp, previous_hash or nonce was overwritten (its stored hash
\* left alone) on a chain built by add_transaction / mine_block, is_chain_valid()
\* returns True, whatever the chain's length; after its stored hash was overwritten
\* is_chain_valid() returns True when the chain had no block 1 at that moment and
\* otherwise False, reporting an invalid previous hash at block 1.
C17_GenesisAsymmetry ==
    (tampered.pos = 0 /\ BuiltByApi) =>
        IF tampered.field # "hash" \/ tampered.len = 1
        THEN is_chain_valid(chain) = [ret |-> "True", idx |-> -1, out |-> ""]
        ELSE is_chain_valid(chain) =
                 [ret |-> "False", idx |-> 1, out |-> "has an invalid previous hash!"]

\* the genesis transactions of a three-block chain were changed and the chain
\* still validates
C17_Witness ==
    /\ BuiltByApi
    /\ Len(chain) >= 3
    /\ tampered.pos = 0
    /\ tampered.field = "transactions"
    /\ At(chain, 0).hash # calculate_hash(At(chain, 0))
    /\ last.op = "is_chain_valid"
    /\ last.ret = "True"
    /\ is_chain_valid(chain).ret = "True"

\* The content of the block at tampered.pos of a chain built by add_transaction /
\* mine_block was changed (its digest is no longer the hash it was sealed with), its
\* hash was overwritten with the recomputed digest, and no block was appended since
Rehashed ==
    /\ BuiltByApi
    /\ tampered.pos >= 0
    /\ Len(chain) = tampered.len
    /\ calculate_hash(At(chain, tampered.pos)) # tampered.sealed
    /\ At(chain, tampered.pos).hash = calculate_hash(At(chain, tampered.pos))

\* C20 as stated (SpecForge): after a block's content was changed and its hash
\* overwritten with the recomputed digest, is_chain_valid() returns True when the
\* block is the last one, and False with an invalid previous hash reported at i + 1
\* when the block is at a position i that has a successor.
C20_Original ==
    Rehashed =>
        IF tampered.pos = Len(chain) - 1
        THEN is_chain_valid(chain) = [ret |-> "True", idx |-> -1, out |-> ""]
        ELSE is_chain_valid(chain) =
                 [ret |-> "False", idx |-> tampered.pos + 1,
                  out |-> "has an invalid previous hash!"]

\* C20 amended (SpecForge).  Re-hashed tamper: after the index, transactions,
\* timestamp or nonce of a block (or the previous_hash of the genesis block) was
\* changed and the block's hash overwritten with the recomputed digest,
\* is_chain_valid() returns True when the block is the last one, and False with an
\* invalid previous hash reported at i + 1 when the block is at a position i that has
\* a successor; after the previous_hash of a block at position i >= 1 was changed
\* and its hash recomputed, it returns False with an invalid previous hash reported
\* at i itself, last block or not.
C20_RehashedTamper ==
    Rehashed =>
        IF tampered.field = "previous_hash" /\ tampered.pos >= 1
        THEN is_chain_valid(chain) =
                 [ret |-> "False", idx |-> tampered.pos,
                  out |-> "has an invalid previous hash!"]
        ELSE IF tampered.pos = Len(chain) - 1
        THEN is_chain_valid(chain) = [ret |-> "True", idx |-> -1, out |-> ""]
        ELSE is_chain_valid(chain) =
                 [ret |-> "False", idx |-> tampered.pos + 1,
                  out |-> "has an invalid previous hash!"]

\* the last block of a three-block chain had its transactions changed and its hash
\* recomputed; no proof-of-work search has come to the new hash and the chain validates
C20_Witness ==
    /\ Rehashed
    /\ Len(chain) >= 3
    /\ tampered.pos = Len(chain) - 1
    /\ tampered.field = "transactions"
    /\ At(chain, tampered.pos).hash.pre \notin DOMAIN leading_zeros
    /\ is_chain_valid(chain).ret = "True"

\* The digest of the block handed to proof_of_work, were its nonce n, was computed
\* by the search
Tried(n) == block_string([pw.arg EXCEPT !.nonce = n]) \in DOMAIN leading_zeros

\* ... and meets the target
MeetsTarget(n) ==
    /\ Tried(n)
    /\ leading_zeros[block_string([pw.arg EXCEPT !.nonce = n])] >= difficulty

\* C18 (SpecPoW).  Minimal winning nonce: proof_of_work sets the nonce to 0 whatever
\* nonce the block was constructed with and then raises it by 1 per iteration; at
\* every point of the search all smaller nonces have been tried and have missed the
\* target, so the nonce it returns with is the smallest that meets it; index,
\* transactions, timestamp, previous_hash and hash of the block are as they were
\* passed in.
C18_MinimalNonce ==
    /\ [](pw.pc \in {"while", "returned"} =>
            /\ pw.block.nonce >= 0
            /\ \A n \in 0..(pw.block.nonce - 1) : Tried(n) /\ ~ MeetsTarget(n)
            /\ [pw.block EXCEPT !.nonce = pw.arg.nonce] = pw.arg)
    /\ [](pw.pc = "returned" => MeetsTarget(pw.block.nonce))
    /\ [][PowEnter => pw'.block.nonce = 0]_vars
    /\ [][PowIterate => pw'.block.nonce = pw.block.nonce + 1]_vars

\* a block constructed with nonce 9 came back with a smaller nonce, above 0
C18_Witness ==
    /\ pw.pc = "returned"
    /\ pw.arg.nonce = 9
    /\ pw.block.nonce > 0
    /\ pw.block.nonce < 9

\* Some nonce gives the block handed to proof_of_work a digest that meets the target
WinnerExists == \E n \in 0..MaxSteps : MeetsTarget(n)

\* C19 (SpecMine).  PoW termination: a proof_of_work call for whose block some nonce
\* meets the target returns, and mine_block then appends the block and clears the
\* buffer; a call for whose block no nonce meets the target never returns, however
\* far the nonce has got the next iteration is due, and mine_block neither appends a
\* block nor clears the buffer.
C19_PoWTermination ==
    /\ (pw.pc = "call" /\ WinnerExists) ~>
          (pw.pc = "done" /\ Len(chain) = 2 /\ pending_transactions = <<>>)
    /\ []((pw.pc # "mine" /\ ~ WinnerExists) =>
            /\ pw.pc \in {"call", "while"}
            /\ Len(chain) = 1
            /\ pending_transactions # <<>>
            /\ (pw.pc = "while" => ENABLED PowIterate))

\* a search for a target no digest meets is still running at the last nonce followed,
\* nothing appended and nothing cleared
C19_Witness ==
    /\ pw.pc = "while"
    /\ difficulty > HexDigits
    /\ pw.block.nonce = MaxSteps
    /\ Len(chain) = 1
    /\ pending_transactions # <<>>

====
